---- MODULE Spec2Model ----
(***************************************************************************)
(* A model of rollup-plugin-html.js: the options hook (extraction pass),   *)
(* resolveId / load (virtual module provider) and generateBundle (rewrite  *)
(* pass and emission), over parse5-style trees kept in an arena of nodes   *)
(* with parent links.                                                      *)
(*                                                                         *)
(* Strings are sequences of tokens.  A token is a one-character string or  *)
(* a literal of the source that is never taken apart (a file name, a       *)
(* constant prefix).  Paths follow node:path on POSIX.                     *)
(***************************************************************************)
EXTENDS Integers, Sequences, FiniteSets, TLC

\* ------------------------------------------------------------------ bounds

\* longest array / object given as rollupOptions.input
MaxInputs == 2
\* values Date.now() can take while one options call runs
MaxClock == 1

\* ---------------------------------------------------------------- binding

\* a value named once and used many times: Let(v, LAMBDA x : e) is e with x = v
Let(v, Body(_)) == Body(v)
Let2(v, w, Body(_, _)) == Body(v, w)
Let3(u, v, w, Body(_, _, _)) == Body(u, v, w)

\* ----------------------------------------------------------------- strings

EmptyStr == <<>>

RECURSIVE SplitAt(_, _, _, _)
SplitAt(s, sep, i, cur) ==
    IF i > Len(s) THEN <<cur>>
    ELSE IF s[i] = sep THEN <<cur>> \o SplitAt(s, sep, i + 1, <<>>)
    ELSE SplitAt(s, sep, i + 1, Append(cur, s[i]))

\* String.prototype.split(sep) for a one-token separator
Split(s, sep) == SplitAt(s, sep, 1, <<>>)

RECURSIVE Join(_, _)
\* Array.prototype.join(sep)
Join(parts, sep) ==
    IF Len(parts) = 0 THEN <<>>
    ELSE IF Len(parts) = 1 THEN parts[1]
    ELSE parts[1] \o <<sep>> \o Join(Tail(parts), sep)

\* String.prototype.startsWith for a one-token prefix
StartsWith(s, tok) == Len(s) > 0 /\ s[1] = tok

\* whitespace characters matched by \s and removed by trim()
IsSpace(t) == t \in {" ", "\n", "\t"}

RECURSIVE TrimStart(_)
TrimStart(s) ==
    IF Len(s) > 0 /\ IsSpace(s[1]) THEN TrimStart(Tail(s)) ELSE s

RECURSIVE TrimEnd(_)
TrimEnd(s) ==
    IF Len(s) > 0 /\ IsSpace(s[Len(s)]) THEN TrimEnd(SubSeq(s, 1, Len(s) - 1)) ELSE s

Trim(s) == TrimEnd(TrimStart(s))

RECURSIVE CollapseSpaces(_, _)
\* value.replace(/\s+/g, ' ')
CollapseSpaces(s, inRun) ==
    IF Len(s) = 0 THEN <<>>
    ELSE IF IsSpace(s[1])
         THEN (IF inRun THEN <<>> ELSE <<" ">>) \o CollapseSpaces(Tail(s), TRUE)
         ELSE <<s[1]>> \o CollapseSpaces(Tail(s), FALSE)

\* ------------------------------------------------------------------- paths

\* process.cwd()
Cwd == <<"/", "cwd">>

\* path.isAbsolute
IsAbsolute(p) == StartsWith(p, "/")

RECURSIVE NormSegs(_, _)
\* resolution of "." and ".." over the segments of an absolute path
NormSegs(segs, acc) ==
    IF Len(segs) = 0 THEN acc
    ELSE LET s == segs[1] IN
         IF s = <<>> \/ s = <<".">> THEN NormSegs(Tail(segs), acc)
         ELSE IF s = <<"..">>
              THEN NormSegs(Tail(segs),
                            IF Len(acc) = 0 THEN acc ELSE SubSeq(acc, 1, Len(acc) - 1))
              ELSE NormSegs(Tail(segs), Append(acc, s))

\* the segments of a normalized absolute path
AbsSegs(p) == NormSegs(Split(p, "/"), <<>>)

FromSegs(segs) == <<"/">> \o Join(segs, "/")

\* path.resolve(base, p) with base absolute
Resolve2(base, p) ==
    IF IsAbsolute(p) THEN FromSegs(AbsSegs(p))
    ELSE FromSegs(AbsSegs(base \o <<"/">> \o p))

\* path.resolve(p)
Resolve1(p) == Resolve2(Cwd, p)

\* path.dirname of a normalized absolute path
Dirname(p) ==
    Let(AbsSegs(p), LAMBDA segs :
        IF Len(segs) <= 1 THEN <<"/">> ELSE FromSegs(SubSeq(segs, 1, Len(segs) - 1)))

RECURSIVE LastNonEmpty(_)
LastNonEmpty(parts) ==
    IF Len(parts) = 0 THEN <<>>
    ELSE IF parts[Len(parts)] # <<>> THEN parts[Len(parts)]
    ELSE LastNonEmpty(SubSeq(parts, 1, Len(parts) - 1))

\* path.basename
Basename(p) == LastNonEmpty(Split(p, "/"))

RECURSIVE CommonPrefixLen(_, _)
CommonPrefixLen(a, b) ==
    IF Len(a) = 0 \/ Len(b) = 0 \/ a[1] # b[1] THEN 0
    ELSE 1 + CommonPrefixLen(Tail(a), Tail(b))

\* path.relative(from, to), both absolute
Relative(from, to) ==
    Let3(AbsSegs(from), AbsSegs(to), CommonPrefixLen(AbsSegs(from), AbsSegs(to)),
         LAMBDA f, t, k :
            Join([i \in 1..(Len(f) - k) |-> <<"..">>] \o SubSeq(t, k + 1, Len(t)), "/"))

\* ------------------------------------------------------------------- trees

\* A tree is an arena: a sequence of nodes, a node's identity is its index.
\* 0 stands for null / undefined in parentNode, content and a traverse result.
Null == 0

NewNode(name, value, attrs, hasKids, parent) ==
    [nodeName |-> name, value |-> value, attrs |-> attrs, childNodes |-> <<>>,
     hasChildNodes |-> hasKids, content |-> Null, parentNode |-> parent]

\* markup terms, the input of parse
El(name, attrs, kids) == [n |-> name, v |-> <<>>, a |-> attrs, k |-> kids, c |-> <<>>]
Txt(value) == [n |-> "#text", v |-> value, a |-> <<>>, k |-> <<>>, c |-> <<>>]
Cmt(value) == [n |-> "#comment", v |-> value, a |-> <<>>, k |-> <<>>, c |-> <<>>]
Tpl(kids) == [n |-> "template", v |-> <<>>, a |-> <<>>, k |-> <<>>, c |-> kids]
Attr(name, value) == [name |-> name, value |-> value]

RECURSIVE Size(_)
RECURSIVE SizeAll(_)
\* the number of nodes a term parses to
Size(term) ==
    1 + SizeAll(term.k) + (IF term.n = "template" THEN 1 + SizeAll(term.c) ELSE 0)

SizeAll(terms) ==
    IF Len(terms) = 0 THEN 0 ELSE Size(terms[1]) + SizeAll(Tail(terms))

\* the ids of the nodes of terms, the first of them being node first
ChildIds(terms, first) ==
    [i \in 1..Len(terms) |-> first + SizeAll(SubSeq(terms, 1, i - 1))]

RECURSIVE BuildNode(_, _, _)
RECURSIVE BuildList(_, _, _)
\* the parse5 nodes of one term, the first being node id: a template's content
\* fragment follows the template
BuildNode(term, id, parent) ==
    <<[NewNode(term.n, term.v, term.a, term.n \notin {"#text", "#comment"}, parent)
         EXCEPT !.childNodes = ChildIds(term.k, id + 1),
                !.content = IF term.n = "template" THEN id + 1 + SizeAll(term.k)
                            ELSE Null]>>
    \o BuildList(term.k, id + 1, id)
    \o (IF term.n = "template"
        THEN <<[NewNode("#document-fragment", <<>>, <<>>, TRUE, Null)
                  EXCEPT !.childNodes = ChildIds(term.c, id + 2 + SizeAll(term.k))]>>
             \o BuildList(term.c, id + 2 + SizeAll(term.k), id + 1 + SizeAll(term.k))
        ELSE <<>>)

BuildList(terms, first, parent) ==
    IF Len(terms) = 0 THEN <<>>
    ELSE BuildNode(terms[1], first, parent)
         \o BuildList(Tail(terms), first + Size(terms[1]), parent)

\* parse(html): the document node is node 1
Parse(term) == BuildNode(term, 1, Null)

Root == 1

\* node.attrs?.find(a => a.name === name)?.value: [defined, v]
Undefined == [defined |-> FALSE, v |-> <<>>]
Defined(v) == [defined |-> TRUE, v |-> v]

RECURSIVE FindAttr(_, _)
FindAttr(attrs, name) ==
    IF Len(attrs) = 0 THEN Undefined
    ELSE IF attrs[1].name = name THEN Defined(attrs[1].value)
    ELSE FindAttr(Tail(attrs), name)

AttrValue(node, name) == FindAttr(node.attrs, name)

\* JavaScript truthiness of a string or undefined
Truthy(x) == x.defined /\ x.v # <<>>

\* `${x}` in a template literal
Interpolate(x) == IF x.defined THEN x.v ELSE <<"undefined">>

\* s.includes(tok)
Includes(s, tok) == \E i \in 1..Len(s) : s[i] = tok

RECURSIVE PreOrder(_, _)
RECURSIVE PreOrderList(_, _)
\* the order in which findNodes visits: a node, its children, then its template content
PreOrder(ast, n) ==
    LET node == ast[n]
        kids == IF node.hasChildNodes THEN PreOrderList(ast, node.childNodes) ELSE <<>>
        tpl == IF node.nodeName = "template" /\ node.content # Null
                  /\ ast[node.content].hasChildNodes
               THEN PreOrderList(ast, ast[node.content].childNodes) ELSE <<>>
    IN <<n>> \o kids \o tpl

PreOrderList(ast, ids) ==
    IF Len(ids) = 0 THEN <<>>
    ELSE PreOrder(ast, ids[1]) \o PreOrderList(ast, Tail(ids))

\* getTextContent(node)
getTextContent(ast, n) ==
    LET node == ast[n] IN
    IF node.hasChildNodes /\ Len(node.childNodes) > 0
       /\ ast[node.childNodes[1]].nodeName = "#text"
    THEN ast[node.childNodes[1]].value
    ELSE <<>>

\* setTextContent(node, text): the tree after the call
setTextContent(ast, n, text) ==
    Let(IF ast[n].hasChildNodes THEN ast
        ELSE [ast EXCEPT ![n].hasChildNodes = TRUE, ![n].childNodes = <<>>],
        LAMBDA a0 :
    Let(a0[n].childNodes, LAMBDA kids :
        IF Len(kids) > 0 /\ a0[kids[1]].nodeName = "#text"
        THEN [a0 EXCEPT ![kids[1]].value = text]
        ELSE [Append(a0, NewNode("#text", text, <<>>, FALSE, n))
                EXCEPT ![n].childNodes = <<Len(a0) + 1>> \o kids]))

\* --------------------------------------------------------------- constants

NOOP_IMPORT_ID == <<"\\0oy3o-rollup-plugin-htmlplugin:noop">>
\* the prefix is one token; it ends in the only ':' it holds
INLINE_MODULE_PREFIX == "\\0oy3o-rollup-plugin-html-inline:"
PLACEHOLDER_HEAD == "__HTML_MODULE_PLACEHOLDER_"
NOOP_PAYLOAD == <<"/* Rollup Plugin HTML: NOOP */">>

\* the plugin's config object, from the options given to RollupPlugin
MakeConfig(preserveStructure, removeComments, compressWhitespace) ==
    [preserveStructure |-> preserveStructure = TRUE,
     removeComments |-> removeComments # FALSE,
     compressWhitespace |-> compressWhitespace,
     cssMinify |-> TRUE,
     terserCompress |-> TRUE]

\* ------------------------------------------------------- extraction (options)

\* Set.prototype.add on an insertion-ordered set
SetAdd(seq, x) == IF \E i \in 1..Len(seq) : seq[i] = x THEN seq ELSE Append(seq, x)

\* lightningTransform(...).code.toString(): the engine's output for css
LightningOutput(css) == <<"lightningcss(">> \o css \o <<")">>

\* s.value for a string s: a string primitive has no such property
StringDotValue(s) == Undefined

VerbatimParents == {"pre", "textarea", "script", "style"}

\* the style branch of traverse: [st, ret, done]
StyleBranch(ctx, st, n) ==
    Let(getTextContent(st.ast, n), LAMBDA css :
        IF css = <<>> THEN [st |-> st, ret |-> Null, done |-> TRUE]
        ELSE IF ctx.cssThrows
        THEN [st |-> [st EXCEPT !.log = Append(@, "lightningcss-error")],
              ret |-> n, done |-> FALSE]
        ELSE [st |-> [st EXCEPT !.ast = setTextContent(@, n, LightningOutput(css))],
              ret |-> n, done |-> FALSE])

\* the inline module record of a script and its placeholder comment
NewInlineModule(st, n, src, code) ==
    Let(<<INLINE_MODULE_PREFIX>> \o Interpolate(src)
           \o <<"?index=", ToString(Len(st.inlineModules))>>,
        LAMBDA virtualId :
    Let(<<PLACEHOLDER_HEAD>> \o virtualId \o <<"__">>, LAMBDA value :
        [st |-> [st EXCEPT
                   !.rollupHtml = SetAdd(@, virtualId),
                   !.inlineModules = Append(@, [virtualId |-> virtualId,
                                                code |-> code, value |-> value]),
                   !.ast = Append(@, NewNode("#comment", value, <<>>, FALSE,
                                             st.ast[n].parentNode))],
         ret |-> Len(st.ast) + 1, done |-> TRUE]))

\* the script branch of traverse: [st, ret, done]
ScriptBranch(ctx, st, n) ==
    Let3(AttrValue(st.ast[n], "type"), AttrValue(st.ast[n], "src"),
         getTextContent(st.ast, n),
         LAMBDA type, src, code :
    Let(IF Truthy(src) THEN StringDotValue(src.v) ELSE Undefined, LAMBDA srcValue :
        IF Truthy(src) /\ ~srcValue.defined
        THEN \* TypeError: src.value is undefined
             [st |-> [st EXCEPT !.threw = TRUE], ret |-> Null, done |-> TRUE]
        ELSE IF Truthy(src) /\ ~Includes(srcValue.v, "://")
        THEN [st |-> [st EXCEPT !.rollupHtml = SetAdd(@, Resolve2(ctx.dir, srcValue.v))],
              ret |-> n, done |-> TRUE]
        ELSE IF ~Truthy(src) /\ Trim(code) = <<>>
        THEN [st |-> st, ret |-> Null, done |-> TRUE]
        ELSE IF (type.defined /\ type.v = <<"module">>) /\ ~Truthy(src)
        THEN NewInlineModule(st, n, src, code)
        ELSE [st |-> st, ret |-> n, done |-> TRUE]))

\* CompressedText trimming on both sides wherever the node stands
TrimmedBothSides(value, kids, n) == Trim(CollapseSpaces(value, FALSE))

\* compressed text of a node among the children kids of its parent
CompressedText(value, kids, n) ==
    Let(CollapseSpaces(value, FALSE), LAMBDA c0 :
        IF Len(kids) > 1
        THEN Let(IF kids[1] = n THEN TrimStart(c0) ELSE c0, LAMBDA a :
                 IF kids[Len(kids)] = n THEN TrimEnd(a) ELSE a)
        ELSE Trim(c0))

\* the text branch of traverse: [st, ret, done]
TextBranch(ctx, st, n) ==
    Let(st.ast[n].parentNode, LAMBDA parent :
        IF parent # Null /\ st.ast[parent].nodeName \notin VerbatimParents
        THEN Let(CompressedText(st.ast[n].value, st.ast[parent].childNodes, n),
                 LAMBDA compressed :
                    IF compressed = <<>> THEN [st |-> st, ret |-> Null, done |-> TRUE]
                    ELSE [st |-> [st EXCEPT !.ast[n].value = compressed],
                          ret |-> n, done |-> FALSE])
        ELSE [st |-> st, ret |-> n, done |-> FALSE])

RECURSIVE traverse(_, _, _)
RECURSIVE MapTraverse(_, _, _, _)

\* the reassignment of parentNode after childNodes.map(traverse).filter(...)
Reparent(r, holder, parent) ==
    IF r.st.threw THEN r.st
    ELSE [r.st EXCEPT !.ast = [i \in 1..Len(r.st.ast) |->
            IF i = holder THEN [r.st.ast[i] EXCEPT !.childNodes = r.ids]
            ELSE IF \E j \in 1..Len(r.ids) : r.ids[j] = i
                 THEN [r.st.ast[i] EXCEPT !.parentNode = parent]
                 ELSE r.st.ast[i]]]

\* holder.childNodes = holder.childNodes.map(traverse).filter(Boolean), and the
\* children kept are given parent as parentNode
TraverseChildren(ctx, st, holder, parent) ==
    Reparent(MapTraverse(ctx, st, st.ast[holder].childNodes, <<>>), holder, parent)

\* the recursion of traverse into the template content of n
TraverseContent(ctx, r1, n) ==
    IF ~r1.threw /\ r1.ast[n].nodeName = "template" /\ r1.ast[n].content # Null
       /\ r1.ast[r1.ast[n].content].hasChildNodes
    THEN TraverseChildren(ctx, r1, r1.ast[n].content, r1.ast[n].content)
    ELSE r1

\* the recursion of traverse into the children and the template content of n
TraverseInto(ctx, st, n) ==
    TraverseContent(ctx,
                    IF st.ast[n].hasChildNodes THEN TraverseChildren(ctx, st, n, n)
                    ELSE st,
                    n)

\* the rest of traverse after a branch s that may have returned
AfterBranch(ctx, s, n) ==
    IF s.done THEN [st |-> s.st, ret |-> s.ret]
    ELSE [st |-> TraverseInto(ctx, s.st, n), ret |-> n]

\* traverse(node): [st, ret], ret the node to keep in its place or Null
traverse(ctx, st, n) ==
    IF st.ast[n].nodeName = "#comment"
    THEN [st |-> st, ret |-> IF ctx.config.removeComments THEN Null ELSE n]
    ELSE IF st.ast[n].nodeName = "style" /\ ctx.config.cssMinify
    THEN AfterBranch(ctx, StyleBranch(ctx, st, n), n)
    ELSE IF st.ast[n].nodeName = "script"
    THEN AfterBranch(ctx, ScriptBranch(ctx, st, n), n)
    ELSE IF st.ast[n].nodeName = "#text" /\ ctx.config.compressWhitespace
    THEN AfterBranch(ctx, TextBranch(ctx, st, n), n)
    ELSE [st |-> TraverseInto(ctx, st, n), ret |-> n]

\* one element of childNodes.map(traverse).filter(Boolean), r its traverse result
MapNext(ctx, r, ids, acc) ==
    MapTraverse(ctx, r.st, ids, IF r.ret = Null THEN acc ELSE Append(acc, r.ret))

\* childNodes.map(traverse).filter(Boolean), a throw ending it: [st, ids]
MapTraverse(ctx, st, ids, acc) ==
    IF Len(ids) = 0 \/ st.threw THEN [st |-> st, ids |-> acc]
    ELSE MapNext(ctx, traverse(ctx, st, ids[1]), Tail(ids), acc)

\* --------------------------------------------------------------- the files

Script(attrs, text) == El("script", attrs, IF text = <<>> THEN <<>> ELSE <<Txt(text)>>)
Module == Attr("type", <<"module">>)
Page(head, body) ==
    El("#document", <<>>, <<El("html", <<>>, <<El("head", <<>>, head), El("body", <<>>, body)>>)>>)

\* fs.readFileSync: the HTML files of the working directory, by absolute path
FileNames ==
    {<<"index.html">>, <<"sub", "/", "index.html">>, <<"sub", "/", "page.html">>,
     <<"ext.html">>, <<"plain.html">>, <<"esrc.html">>, <<"mixed.html">>,
     <<"ws.html">>, <<"cmt.html">>}

FileTerm(name) ==
    CASE name = <<"index.html">> ->
           Page(<<El("style", <<>>, <<Txt(<<"s">>)>>)>>,
                <<Cmt(<<"note">>), Script(<<Module>>, <<"A">>), Txt(<<" ", "h", " ", " ", "i", " ">>)>>)
      [] name = <<"sub", "/", "index.html">> ->
           Page(<<>>, <<Script(<<Module>>, <<"A">>)>>)
      [] name = <<"sub", "/", "page.html">> ->
           Page(<<>>,
                <<Script(<<Module>>, <<"D">>),
                  Tpl(<<Script(<<Module>>, <<"B">>)>>),
                  Script(<<>>, <<"x">>),
                  Script(<<Module>>, <<" ">>),
                  El("div", <<>>, <<Script(<<Module>>, <<"C">>)>>)>>)
      [] name = <<"ext.html">> ->
           Page(<<>>, <<Script(<<Module>>, <<"A">>),
                        Script(<<Module, Attr("src", <<".", "/", "main.js">>)>>, <<>>)>>)
      [] name = <<"plain.html">> ->
           Page(<<>>, <<El("p", <<>>, <<Txt(<<"h", "i">>)>>)>>)
      [] name = <<"esrc.html">> ->
           Page(<<>>, <<Script(<<Module, Attr("src", <<>>)>>, <<"B">>)>>)
      [] name = <<"ws.html">> ->
           Page(<<>>,
                <<El("p", <<>>, <<Txt(<<" ", " ", "hello", " ", "\n", " ", "world", " ", " ">>)>>),
                  El("div", <<>>,
                     <<Txt(<<" ", " ", "hello", " ", "\t", " ", "world", " ", " ">>),
                       El("b", <<>>, <<>>),
                       Txt(<<" ", " ", "a", " ", " ">>),
                       El("i", <<>>, <<>>),
                       Txt(<<" ", " ", "z", " ", " ">>)>>),
                  El("pre", <<>>, <<Txt(<<" ", " ", "x", " ", " ">>)>>),
                  El("p", <<>>, <<Txt(<<" ", "\n">>)>>)>>)
      [] name = <<"cmt.html">> ->
           Page(<<>>, <<Cmt(<<PLACEHOLDER_HEAD, "todo">>), Cmt(<<"note">>),
                        El("p", <<>>, <<Txt(<<"h", "i">>)>>)>>)
      [] name = <<"mixed.html">> ->
           Page(<<El("style", <<>>, <<Txt(<<"t">>)>>)>>,
                <<Script(<<Attr("src", <<"main.js">>)>>, <<>>)>>)

FileExists(absolutePath) == \E f \in FileNames : Resolve1(f) = absolutePath

ReadFile(absolutePath) == FileTerm(CHOOSE f \in FileNames : Resolve1(f) = absolutePath)

\* createFilter(options.include || '**/*.html', options.exclude)
HtmlSuffixed ==
    {"index.html", "page.html", "ext.html", "plain.html", "esrc.html", "mixed.html",
     "ws.html", "cmt.html", "missing.html"}
Filter(src) == Len(src) > 0 /\ src[Len(src)] \in HtmlSuffixed

\* a value of rollupOptions.input that is not a string
NonString == <<"[object Object]">>
IsString(v) == v # NonString

\* ------------------------------------------------------------ options hook

\* objects with string keys: sequences of [key, value] in insertion order
HasOwn(obj, key) == \E i \in 1..Len(obj) : obj[i].key = key

\* obj[key] = value
ObjSet(obj, key, value) ==
    IF HasOwn(obj, key)
    THEN [i \in 1..Len(obj) |->
            IF obj[i].key = key THEN [key |-> key, value |-> value] ELSE obj[i]]
    ELSE Append(obj, [key |-> key, value |-> value])

ObjGet(obj, key) == obj[CHOOSE i \in 1..Len(obj) : obj[i].key = key].value

RECURSIVE ArrayToObject(_, _)
ArrayToObject(arr, obj) ==
    IF Len(arr) = 0 THEN obj
    ELSE ArrayToObject(Tail(arr),
                       IF IsString(arr[1]) THEN ObjSet(obj, arr[1], arr[1]) ELSE obj)

\* step 1: the input as an object
NormalizeInput(input) ==
    CASE input.kind = "string" -> <<[key |-> input.str, value |-> input.str]>>
      [] input.kind = "array" -> ArrayToObject(input.arr, <<>>)
      [] input.kind = "object" -> input.obj
      [] OTHER -> <<>>

\* step 2: the entries the filter matches, as [dest, src], and the others
HtmlEntries(normalized) ==
    SelectSeq(normalized, LAMBDA e : IsString(e.value) /\ Filter(e.value))
NonHtmlEntries(normalized) ==
    SelectSeq(normalized, LAMBDA e : ~(IsString(e.value) /\ Filter(e.value)))

\* the try block of Html.forEach for a file that is read: parse, traverse, store
ProcessFile(config, cssThrows, acc1, dest, src, absolutePath) ==
    Let(traverse([config |-> config, dir |-> Dirname(absolutePath),
                  cssThrows |-> cssThrows],
                 [ast |-> Parse(ReadFile(absolutePath)), inlineModules |-> <<>>,
                  rollupHtml |-> acc1.rollupHtml, threw |-> FALSE, log |-> acc1.log],
                 Root),
        LAMBDA r :
           IF r.st.threw
           THEN [acc1 EXCEPT !.threw = TRUE, !.rollupHtml = r.st.rollupHtml,
                             !.log = Append(r.st.log, "error-processing")]
           ELSE IF r.ret = Null \/ ~r.st.ast[r.ret].hasChildNodes
                   \/ Len(r.st.ast[r.ret].childNodes) = 0
           THEN [acc1 EXCEPT !.rollupHtml = r.st.rollupHtml,
                             !.log = Append(r.st.log, "document-empty")]
           ELSE [acc1 EXCEPT !.rollupHtml = r.st.rollupHtml, !.log = r.st.log,
                             !.htmlData = Append(@, [absolutePath |-> absolutePath,
                                                     src |-> src, dest |-> dest,
                                                     ast |-> r.st.ast,
                                                     inlineModules |-> r.st.inlineModules])])

\* step 3, one element of Html.forEach: acc is [htmlData, rollupHtml, processed, threw, log]
ProcessHtml(config, cssThrows, acc, dest, src) ==
    Let(Resolve1(src), LAMBDA absolutePath :
        IF absolutePath \in acc.processed
        THEN [acc EXCEPT !.log = Append(@, "duplicate")]
        ELSE IF ~FileExists(absolutePath)
        THEN [acc EXCEPT !.processed = @ \cup {absolutePath},
                         !.threw = TRUE, !.log = Append(@, "error-processing")]
        ELSE ProcessFile(config, cssThrows,
                         [acc EXCEPT !.processed = @ \cup {absolutePath}],
                         dest, src, absolutePath))

RECURSIVE ProcessAll(_, _, _, _)
\* Html.forEach(...): this.error ends the call
ProcessAll(config, cssThrows, acc, Html) ==
    IF Len(Html) = 0 \/ acc.threw THEN acc
    ELSE ProcessAll(config, cssThrows,
                    ProcessHtml(config, cssThrows, acc, Html[1].key, Html[1].value),
                    Tail(Html))

\* crypto sha256 of the entry, base64url, alphanumerics only, 20 characters:
\* one token per entry, different entries giving different tokens
Hash(entry) == "sha256(" \o ToString(entry) \o ")"

RECURSIVE TakeUntilQuery(_)
\* s.split('?')[0]
TakeUntilQuery(s) ==
    IF Len(s) = 0 \/ s[1] \in {"?", "?index="} THEN <<>>
    ELSE <<s[1]>> \o TakeUntilQuery(Tail(s))

\* characters kept by replace(/[^a-zA-Z0-9_.-]/g, '_'): tokens made of them only
UnsafeTokens == {"/", ":", "?", " ", "?index=", "://"}
Sanitize(s) == [i \in 1..Len(s) |-> IF s[i] \in UnsafeTokens THEN "_" ELSE s[i]]

\* the key under which an entry is presented to the bundler
InputKey(entry) ==
    LET keyBase == Basename(IF StartsWith(entry, INLINE_MODULE_PREFIX)
                            THEN TakeUntilQuery(Split(Tail(entry), ":")[1])
                            ELSE entry)
    IN Sanitize(keyBase) \o <<"_", Hash(entry)>>

\* one element of rollupHtml.forEach
AddEntry(rollups, entry, now) ==
    Let(InputKey(entry), LAMBDA key :
        IF HasOwn(rollups, key)
        THEN ObjSet(rollups, key \o <<"_", ToString(now)>>, entry)
        ELSE ObjSet(rollups, key, entry))

RECURSIVE AddEntries(_, _, _)
AddEntries(rollups, entries, now) ==
    IF Len(entries) = 0 THEN rollups
    ELSE AddEntries(AddEntry(rollups, entries[1], now), Tail(entries), now)

NOOP_KEY == <<"_html_noop_entry">>

\* BuildInput without the no-op entry: the mapping may be returned empty
BuildInputUnguarded(nonHtml, rollupHtml, nHtml, now) ==
    AddEntries(nonHtml, rollupHtml, now)

\* step 4: the input object returned to the bundler
BuildInput(nonHtml, rollupHtml, nHtml, now) ==
    Let(AddEntries(nonHtml, rollupHtml, now), LAMBDA rollups :
        IF Len(rollups) = 0 /\ nHtml > 0
        THEN <<[key |-> NOOP_KEY, value |-> NOOP_IMPORT_ID]>>
        ELSE rollups)

\* what options returns, given the entries and the outcome acc of Html.forEach
OptionsResult(input, Html, nonHtml, acc, now) ==
    [hook |-> "options", input |-> input, Html |-> Html, nonHtml |-> nonHtml,
     rollupHtml |-> acc.rollupHtml, log |-> acc.log,
     ret |-> IF Len(Html) = 0
             THEN (IF Len(nonHtml) > 0 THEN "rollupOptions" ELSE "null")
             ELSE IF acc.threw THEN "throw" ELSE "new",
     newInput |-> IF Len(Html) = 0 \/ acc.threw THEN <<>>
                  ELSE BuildInput(nonHtml, acc.rollupHtml, Len(Html), now)]

\* KeptData: the records of the earlier build stay
KeptData(old) == old

\* htmlData = new Map(): the records an earlier build left are dropped
ResetData(old) == <<>>

\* options(rollupOptions): what the call leaves and returns
OptionsCall(config, input, cssThrows, now) ==
    Let(NormalizeInput(input), LAMBDA normalized :
    Let2(HtmlEntries(normalized), NonHtmlEntries(normalized), LAMBDA Html, nonHtml :
    Let(ProcessAll(config, cssThrows,
                   [htmlData |-> <<>>, rollupHtml |-> <<>>, processed |-> {},
                    threw |-> FALSE, log |-> <<>>],
                   Html),
        LAMBDA acc :
           [htmlData |-> acc.htmlData,
            isWithDest |-> input.kind = "object",
            out |-> OptionsResult(input, Html, nonHtml, acc, now)])))

\* ------------------------------------------------------- resolveId and load

\* resolveId(id): [defined, v]; undefined stands for null
resolveId(id) ==
    IF id = NOOP_IMPORT_ID \/ StartsWith(id, INLINE_MODULE_PREFIX)
    THEN Defined(id) ELSE Undefined

\* the inline module records of all documents, in the order load searches them
RECURSIVE AllInlineModules(_)
AllInlineModules(data) ==
    IF Len(data) = 0 THEN <<>>
    ELSE data[1].inlineModules \o AllInlineModules(Tail(data))

\* load(id): [ret, code]
LoadCall(data, id) ==
    IF id = NOOP_IMPORT_ID THEN [ret |-> "code", code |-> NOOP_PAYLOAD]
    ELSE IF StartsWith(id, INLINE_MODULE_PREFIX)
    THEN Let(SelectSeq(AllInlineModules(data), LAMBDA m : m.virtualId = id),
             LAMBDA found :
                IF Len(found) > 0 THEN [ret |-> "code", code |-> found[1].code]
                ELSE [ret |-> "throw", code |-> <<>>])
    ELSE [ret |-> "null", code |-> <<>>]

\* ------------------------------------------------------------ generateBundle

\* terserMinify(code).code
TerserOutput(code) == <<"terser(">> \o code \o <<")">>

\* path.dirname of a relative or absolute path
DirnameAny(p) ==
    IF IsAbsolute(p) THEN Dirname(p)
    ELSE Let(SelectSeq(Split(p, "/"), LAMBDA x : x # <<>>), LAMBDA segs :
             IF Len(segs) <= 1 THEN <<".">> ELSE Join(SubSeq(segs, 1, Len(segs) - 1), "/"))

\* outputOptions.dir || (outputOptions.file ? path.dirname(outputOptions.file) : null)
OutputDir(outputOptions) ==
    IF Truthy(outputOptions.dir) THEN outputOptions.dir
    ELSE IF Truthy(outputOptions.file) THEN Defined(DirnameAny(outputOptions.file.v))
    ELSE Undefined

DigitTokens == {ToString(i) : i \in 0..9}
QueryTokens == {"?", "?index="}

\* value.match(/__HTML_MODULE_PLACEHOLDER_(\0...inline:[^?]+\?index=\d+)__/)?.[1]
ParsePlaceholder(s) ==
    Let({m \in (1..Len(s)) \X (1..Len(s)) :
            /\ s[m[1]] = PLACEHOLDER_HEAD
            /\ m[1] + 1 <= Len(s) /\ s[m[1] + 1] = INLINE_MODULE_PREFIX
            /\ m[2] >= m[1] + 4 /\ m[2] < Len(s) /\ s[m[2] + 1] = "__"
            /\ \E j \in (m[1] + 3)..(m[2] - 1) :
                  /\ s[j] = "?index="
                  /\ \A x \in (m[1] + 2)..(j - 1) : s[x] \notin QueryTokens
                  /\ \A x \in (j + 1)..m[2] : s[x] \in DigitTokens},
        LAMBDA matches :
           IF matches = {} THEN Undefined
           ELSE Let(CHOOSE m \in matches :
                       \A o \in matches :
                          m[1] < o[1] \/ (m[1] = o[1] /\ m[2] <= o[2]),
                    LAMBDA m : Defined(SubSeq(s, m[1] + 1, m[2]))))

\* the predicate of inlineScripts: the inline non-module scripts
IsInlineClassicScript(node) ==
    /\ node.nodeName = "script"
    /\ ~Truthy(AttrValue(node, "src"))
    /\ ~(AttrValue(node, "type").defined /\ AttrValue(node, "type").v = <<"module">>)

\* the reference nodes: placeholder comments and local module scripts
IsReferenceNode(node) ==
    \/ node.nodeName = "#comment" /\ StartsWith(node.value, PLACEHOLDER_HEAD)
    \/ /\ node.nodeName = "script"
       /\ AttrValue(node, "type").defined /\ AttrValue(node, "type").v = <<"module">>
       /\ Truthy(AttrValue(node, "src"))
       /\ ~Includes(AttrValue(node, "src").v, "://")

\* findNodes(ast, ...) for inlineScripts
InlineScripts(ast) ==
    SelectSeq(PreOrder(ast, Root), LAMBDA n : IsInlineClassicScript(ast[n]))

\* findNodes(ast, ...) for nodesToReplace
NodesToReplace(ast) ==
    SelectSeq(PreOrder(ast, Root), LAMBDA n : IsReferenceNode(ast[n]))

RECURSIVE MinifyScripts(_, _, _)
\* the terser loop over inlineScripts: [ast, log]
MinifyScripts(r, ids, terser) ==
    IF Len(ids) = 0 THEN r
    ELSE Let(getTextContent(r.ast, ids[1]), LAMBDA code :
             MinifyScripts(IF Trim(code) = <<>> THEN r
                           ELSE IF terser = "ok"
                           THEN [r EXCEPT !.ast = setTextContent(@, ids[1],
                                                                 TerserOutput(code))]
                           ELSE IF terser = "undefined"
                           THEN [r EXCEPT !.log = Append(@, "terser-undefined")]
                           ELSE [r EXCEPT !.log = Append(@, "terser-failed")],
                           Tail(ids), terser))

\* Object.values(bundle).find(...)?.fileName: [defined, v]
FindChunk(bundle, moduleId) ==
    Let(SelectSeq(bundle, LAMBDA c :
                   /\ c.type = "chunk"
                   /\ \/ (c.facadeModuleId.defined /\ c.facadeModuleId.v = moduleId)
                      \/ moduleId \in c.modules),
        LAMBDA hits : IF Len(hits) > 0 THEN Defined(hits[1].fileName) ELSE Undefined)

\* relativePath, the document's place under outputDir as the rewrite computes it
RelativePath(config, withDest, data) ==
    IF withDest
    THEN (IF StartsWith(data.dest, "/") THEN Tail(data.dest) ELSE data.dest)
    ELSE IF config.preserveStructure
    THEN (IF IsAbsolute(data.src) THEN Relative(Cwd, data.absolutePath) ELSE data.src)
    ELSE Basename(data.src)

\* OutputFileName with preserveStructure consulted before the input key
StructureFirstName(config, withDest, data) ==
    IF config.preserveStructure
    THEN (IF IsAbsolute(data.src) THEN Relative(Cwd, data.absolutePath) ELSE data.src)
    ELSE IF withDest
    THEN (IF StartsWith(data.dest, "/") THEN Tail(data.dest) ELSE data.dest)
    ELSE Basename(data.src)

\* Html, the fileName given to emitFile
OutputFileName(config, withDest, data) ==
    IF withDest
    THEN (IF StartsWith(data.dest, "/") THEN Tail(data.dest) ELSE data.dest)
    ELSE IF config.preserveStructure
    THEN (IF IsAbsolute(data.src) THEN Relative(Cwd, data.absolutePath) ELSE data.src)
    ELSE Basename(data.src)

DotTokens == {".", ".."}

\* chunkRelPath, the src of the new script node
ChunkRelPath(outputDir, relativePath, chunkName) ==
    Let(Resolve1(outputDir), LAMBDA outRoot :
    Let(Join(Split(Relative(Dirname(Resolve2(outRoot, relativePath)),
                            Resolve2(outRoot, chunkName)), "/"), "/"),
        LAMBDA rel :
           IF ~(Len(rel) > 0 /\ rel[1] \in DotTokens) /\ ~StartsWith(rel, "/")
           THEN <<".", "/">> \o rel ELSE rel))

\* parent.childNodes.findIndex(child => child === node), 0 for -1
FindIndex(kids, n) ==
    IF \E i \in 1..Len(kids) : kids[i] = n
    THEN CHOOSE i \in 1..Len(kids) : kids[i] = n /\ \A j \in 1..(i - 1) : kids[j] # n
    ELSE 0

\* Splice deleting nothing: the items go in before the element at index
InsertedBefore(kids, index, items) ==
    SubSeq(kids, 1, index - 1) \o items \o SubSeq(kids, index, Len(kids))

\* kids.splice(index, 1, ...items)
Splice(kids, index, items) ==
    SubSeq(kids, 1, index - 1) \o items \o SubSeq(kids, index + 1, Len(kids))

\* the module id a reference node stands for: [defined, v]
ModuleIdOf(c, node) ==
    IF node.nodeName = "#comment" THEN ParsePlaceholder(node.value)
    ELSE Defined(Resolve2(c.dir, AttrValue(node, "src").v))

\* the branch "if (chunkName)": the new script node takes the place of node n
ReplaceNode(c, r, n, moduleId, chunkName, index) ==
    Let3(RelativePath(c.config, c.withDest, c.data), r.ast[n].parentNode, Len(r.ast) + 1,
         LAMBDA relativePath, parent, id :
    Let(Append(r.ast,
               NewNode("script", <<>>,
                       <<Attr("type", <<"module">>),
                         Attr("src", ChunkRelPath(c.outputDir, relativePath, chunkName))>>,
                       TRUE, parent)),
        LAMBDA a1 :
           IF index # 0
           THEN [ast |-> [a1 EXCEPT ![parent].childNodes = Splice(@, index, <<id>>)],
                 log |-> r.log,
                 replaced |-> Append(r.replaced,
                                     [old |-> n, new |-> id, parent |-> parent,
                                      moduleId |-> moduleId, chunk |-> chunkName,
                                      relativePath |-> relativePath])]
           ELSE [r EXCEPT !.ast = a1, !.log = Append(@, "not-replaced")]))

\* RemoveNode with the warning alone: the node stays where it is
WarnedOnly(r, n, index, warning) == [r EXCEPT !.log = Append(@, warning)]

\* the branches that remove node n from its parent
RemoveNode(r, n, index, warning) ==
    [r EXCEPT
       !.ast = IF index # 0
               THEN [r.ast EXCEPT ![r.ast[n].parentNode].childNodes = Splice(@, index, <<>>)]
               ELSE r.ast,
       !.log = Append(@, warning)]

\* one pass of the loop over nodesToReplace: r is [ast, log, replaced]
RewriteNode(c, r, n) ==
    Let2(ModuleIdOf(c, r.ast[n]),
         IF r.ast[n].parentNode # Null /\ r.ast[r.ast[n].parentNode].hasChildNodes
         THEN FindIndex(r.ast[r.ast[n].parentNode].childNodes, n) ELSE 0,
         LAMBDA moduleId, index :
    Let(IF moduleId.defined THEN FindChunk(c.bundle, moduleId.v) ELSE Undefined,
        LAMBDA chunkName :
           IF Truthy(chunkName)
           THEN ReplaceNode(c, r, n, moduleId.v, chunkName.v, index)
           ELSE IF moduleId.defined
           THEN RemoveNode([r EXCEPT !.log = Append(@, "chunk-not-found")], n, index,
                           "removing-node")
           ELSE IF r.ast[n].nodeName = "#comment"
           THEN RemoveNode([r EXCEPT !.log = Append(@, "placeholder-unparsed")], n, index,
                           "removing-unparsed")
           ELSE r))

RECURSIVE RewriteNodes(_, _, _)
RewriteNodes(c, r, ids) ==
    IF Len(ids) = 0 THEN r
    ELSE RewriteNodes(c, RewriteNode(c, r, ids[1]), Tail(ids))

RECURSIVE Serialize(_, _)
RECURSIVE SerializeList(_, _)
RECURSIVE SerializeAttrs(_)
SerializeAttrs(attrs) ==
    IF Len(attrs) = 0 THEN <<>>
    ELSE <<" ", attrs[1].name, "=", "\"">> \o attrs[1].value \o <<"\"">>
         \o SerializeAttrs(Tail(attrs))

\* serialize(ast): the markup of a node's subtree
Serialize(ast, n) ==
    LET node == ast[n] IN
    IF node.nodeName = "#text" THEN node.value
    ELSE IF node.nodeName = "#comment" THEN <<"<!--">> \o node.value \o <<"-->">>
    ELSE IF node.nodeName \in {"#document", "#document-fragment"}
    THEN SerializeList(ast, node.childNodes)
    ELSE <<"<", node.nodeName>> \o SerializeAttrs(node.attrs) \o <<">">>
         \o (IF node.nodeName = "template" /\ node.content # Null
             THEN Serialize(ast, node.content)
             ELSE SerializeList(ast, node.childNodes))
         \o <<"</", node.nodeName, ">">>

SerializeList(ast, ids) ==
    IF Len(ids) = 0 THEN <<>>
    ELSE Serialize(ast, ids[1]) \o SerializeList(ast, Tail(ids))

\* the body of the loop over htmlData up to serialize: [ast, log, replaced]
RewriteDocument(config, withDest, outputDir, bundle, terser, data) ==
    Let(IF config.terserCompress
        THEN MinifyScripts([ast |-> data.ast, log |-> <<>>, replaced |-> <<>>],
                           InlineScripts(data.ast), terser)
        ELSE [ast |-> data.ast, log |-> <<>>, replaced |-> <<>>],
        LAMBDA r1 :
           RewriteNodes([config |-> config, withDest |-> withDest,
                         outputDir |-> outputDir, bundle |-> bundle, data |-> data,
                         dir |-> Dirname(data.absolutePath)],
                        r1, NodesToReplace(r1.ast)))

\* AlreadyEmitted without the lookup: no collision is ever seen
NeverEmitted(emitted, Html) == FALSE

\* emitted.has(Html)
AlreadyEmitted(emitted, Html) == \E e \in 1..Len(emitted) : emitted[e].fileName = Html

\* the end of the loop body: the collision check and emitFile
EmitDocument(acc, i, r, Html) ==
    Let([acc EXCEPT !.htmlData[i].ast = r.ast,
                    !.log = @ \o r.log,
                    !.replaced = Append(@, r.replaced)],
        LAMBDA acc1 :
           IF AlreadyEmitted(acc.emitted, Html)
           THEN [acc1 EXCEPT !.ret = "throw", !.log = Append(@, "collision"),
                             !.collision = Html]
           ELSE [acc1 EXCEPT !.emitted = Append(@, [fileName |-> Html,
                                                    source |-> Serialize(r.ast, Root),
                                                    doc |-> i])])

RECURSIVE BundleLoop(_, _, _, _, _, _, _, _)
\* for (const [absolutePath, data] of htmlData.entries()): acc is
\* [htmlData, emitted, ret, log, replaced, collision]; this.error ends the call
BundleLoop(config, withDest, outputDir, bundle, terser, data, i, acc) ==
    IF i > Len(data) \/ acc.ret = "throw" THEN acc
    ELSE BundleLoop(config, withDest, outputDir, bundle, terser, data, i + 1,
                    EmitDocument(acc, i,
                                 RewriteDocument(config, withDest, outputDir, bundle,
                                                 terser, data[i]),
                                 OutputFileName(config, withDest, data[i])))

\* generateBundle(outputOptions, bundle): what the call leaves and reports
GenerateBundleCall(config, withDest, data, outputOptions, bundle, terser) ==
    Let2(OutputDir(outputOptions),
         [htmlData |-> data, emitted |-> <<>>, ret |-> "ok", log |-> <<>>,
          replaced |-> <<>>, collision |-> <<>>],
         LAMBDA outputDir, acc0 :
            IF ~Truthy(outputDir)
            THEN [acc0 EXCEPT !.ret = "throw", !.log = <<"no-output-dir">>]
            ELSE BundleLoop(config, withDest, outputDir.v, bundle, terser, data, 1, acc0))

\* ------------------------------------------------------------ the inputs

\* the options given to RollupPlugin: each flag true, false or left out
PluginOptionsSet ==
    [preserveStructure : {"true", "undefined"},
     removeComments : {"false", "undefined"},
     compressWhitespace : {"true", "undefined"}]

\* const config = { ... } of the factory
Config(o) ==
    MakeConfig(o.preserveStructure = "true", o.removeComments # "false",
               o.compressWhitespace = "true")

AbsIndex == Cwd \o <<"/", "index.html">>
MainJs == <<"main.js">>

\* the virtual ids the bundler may ask for
InlineId(name, i) == <<INLINE_MODULE_PREFIX>> \o name \o <<"?index=", ToString(i)>>
ModuleIds ==
    {NOOP_IMPORT_ID, MainJs, InlineId(<<"undefined">>, 0), InlineId(<<>>, 0),
     InlineId(<<"undefined">>, 7)}

\* values of a string input
StringValues == FileNames \cup {<<"missing.html">>, AbsIndex, MainJs}
\* elements of an array input
ArrayValues == {<<"index.html">>, <<"sub", "/", "index.html">>, AbsIndex, MainJs, NonString}

RECURSIVE SeqsUpTo(_, _)
\* the sequences over S of length at most n
SeqsUpTo(S, n) ==
    IF n = 0 THEN {<<>>}
    ELSE Let(SeqsUpTo(S, n - 1), LAMBDA shorter :
             shorter \cup {Append(q, x) : q \in {r \in shorter : Len(r) = n - 1}, x \in S})

Clock == 0..MaxClock

\* the entries of an object input, in the order they are written
ObjectEntries ==
    <<[key |-> <<"index.html">>, value |-> <<"index.html">>],
      [key |-> <<"/", "index.html">>, value |-> <<"sub", "/", "index.html">>],
      [key |-> <<"out", "/", "page.html">>, value |-> <<"sub", "/", "page.html">>],
      [key |-> InputKey(InlineId(<<"undefined">>, 0)), value |-> MainJs],
      [key |-> InputKey(InlineId(<<"undefined">>, 0)) \o <<"_", ToString(0)>>,
       value |-> MainJs]>>

\* longest object input
MaxObject == 3

\* rollupOptions.input: a string, an array, an object or nothing
StringInput(p) == [kind |-> "string", str |-> p, arr |-> <<>>, obj |-> <<>>]
ArrayInput(a) == [kind |-> "array", str |-> <<>>, arr |-> a, obj |-> <<>>]
ObjectInput(o) == [kind |-> "object", str |-> <<>>, arr |-> <<>>, obj |-> o]
NoInput == [kind |-> "undefined", str |-> <<>>, arr |-> <<>>, obj |-> <<>>]

Inputs ==
    {NoInput}
    \cup {StringInput(p) : p \in StringValues}
    \cup {ArrayInput(a) : a \in SeqsUpTo(ArrayValues, MaxInputs)}
    \cup {ObjectInput(SelectSeq(ObjectEntries, LAMBDA e : e \in chosen)) :
           chosen \in {c \in SUBSET {ObjectEntries[i] : i \in 1..Len(ObjectEntries)} :
                          Cardinality(c) <= MaxObject}}

\* rollupOptions.input of the options calls that follow the first one
LaterInputs ==
    {StringInput(MainJs), StringInput(<<"plain.html">>),
     ObjectInput(<<ObjectEntries[2]>>)}

Asset == [type |-> "asset", facadeModuleId |-> Undefined, modules |-> {},
          fileName |-> <<"style.css">>]
Chunk(facade, modules, fileName) ==
    [type |-> "chunk", facadeModuleId |-> facade, modules |-> modules, fileName |-> fileName]

\* Object.values(bundle) of the bundles the compile phase may publish
Bundles ==
    {<<>>,
     <<Asset,
       Chunk(Defined(InlineId(<<"undefined">>, 0)), {InlineId(<<"undefined">>, 0)},
             <<"assets", "/", "a-1.js">>),
       Chunk(Undefined, {InlineId(<<"undefined">>, 1), InlineId(<<>>, 0)},
             <<"b-2.js">>)>>}

OutputOptionsSet ==
    {[dir |-> Defined(<<"dist">>), file |-> Undefined],
     [dir |-> Undefined, file |-> Defined(<<"dist", "/", "bundle.js">>)],
     [dir |-> Undefined, file |-> Undefined]}

TerserOutcomes == {"ok", "undefined", "throw"}

\* the outcomes that can show: one when no script reaches the minifier
TerserChoices(data) ==
    IF \E i \in 1..Len(data) :
          \E n \in 1..Len(data[i].ast) :
             /\ IsInlineClassicScript(data[i].ast[n])
             /\ Trim(getTextContent(data[i].ast, n)) # <<>>
    THEN TerserOutcomes ELSE {"ok"}

\* outputs generated in one build
MaxOutputs == 2

\* ------------------------------------------------------------ the machine

VARIABLES
    pluginOptions,  \* the options the plugin was created with
    htmlData,       \* the document records, in insertion order
    isWithDest,     \* the input of the last options call was an object
    building,       \* a build is under way: options returned, nothing failed
    outputs,        \* generateBundle calls of the build under way
    last            \* the last hook call, with what it returned or reported

vars == <<pluginOptions, htmlData, isWithDest, building, outputs, last>>

Init ==
    /\ pluginOptions \in PluginOptionsSet
    /\ htmlData = <<>>
    /\ isWithDest = FALSE
    /\ building = FALSE
    /\ outputs = 0
    /\ last = [hook |-> "none"]

\* what hook calls before an options call left behind
Previous == [paths |-> {htmlData[d].absolutePath : d \in 1..Len(htmlData)},
             isWithDest |-> isWithDest]

Options(input, cssThrows, now) ==
    /\ \E r \in {OptionsCall(Config(pluginOptions), input, cssThrows, now)} :
          /\ htmlData' = ResetData(htmlData) \o r.htmlData
          /\ isWithDest' = r.isWithDest
          /\ building' = (r.out.ret # "throw")
          /\ last' = r.out @@ [previous |-> Previous]
    /\ outputs' = 0
    /\ UNCHANGED pluginOptions

ResolveId(id) ==
    /\ building /\ outputs = 0
    /\ last' = [hook |-> "resolveId", id |-> id, ret |-> resolveId(id)]
    /\ UNCHANGED <<pluginOptions, htmlData, isWithDest, building, outputs>>

Load(id) ==
    /\ building /\ outputs = 0
    /\ \E r \in {LoadCall(htmlData, id)} :
          /\ last' = [hook |-> "load", id |-> id, ret |-> r.ret, code |-> r.code]
          /\ building' = (r.ret # "throw")
    /\ UNCHANGED <<pluginOptions, htmlData, isWithDest, outputs>>

GenerateBundle(outputOptions, bundle, terser) ==
    /\ building /\ outputs < MaxOutputs
    /\ \E r \in {GenerateBundleCall(Config(pluginOptions), isWithDest, htmlData,
                                     outputOptions, bundle, terser)} :
          /\ htmlData' = r.htmlData
          /\ building' = (r.ret # "throw")
          /\ last' = [hook |-> "generateBundle", ret |-> r.ret, emitted |-> r.emitted,
                      log |-> r.log, replaced |-> r.replaced, collision |-> r.collision,
                      outputDir |-> OutputDir(outputOptions), bundle |-> bundle,
                      before |-> htmlData]
    /\ outputs' = outputs + 1
    /\ UNCHANGED <<pluginOptions, isWithDest>>

Next ==
    \/ \E input \in (IF last.hook = "none" THEN Inputs ELSE LaterInputs),
          cssThrows \in BOOLEAN, now \in Clock :
          Options(input, cssThrows, now)
    \/ \E id \in ModuleIds : ResolveId(id)
    \/ \E id \in ModuleIds : Load(id)
    \/ \E outputOptions \in OutputOptionsSet, bundle \in Bundles,
          terser \in TerserChoices(htmlData) :
          GenerateBundle(outputOptions, bundle, terser)

Spec == Init /\ [][Next]_vars

\* ------------------------------------------------------------ properties

\* the tree a matched input is parsed to, before extraction changes it
SourceTree(path) == Parse(ReadFile(path))

\* every matched input of the last options call names a file that can be read
AllReadable == \A e \in 1..Len(last.Html) : FileExists(Resolve1(last.Html[e].value))

\* a script whose src is a non-empty local path
IsLocalSrcScript(node) ==
    /\ node.nodeName = "script"
    /\ Truthy(AttrValue(node, "src"))
    /\ ~Includes(AttrValue(node, "src").v, "://")

\* the inline type="module" scripts of a tree that hold text, in document order
InlineModuleScripts(tree) ==
    SelectSeq(PreOrder(tree, Root), LAMBDA n :
        /\ tree[n].nodeName = "script"
        /\ AttrValue(tree[n], "type") = Defined(<<"module">>)
        /\ ~Truthy(AttrValue(tree[n], "src"))
        /\ Trim(getTextContent(tree, n)) # <<>>)

\* the placeholder comments of a tree, in document order
Placeholders(tree) ==
    SelectSeq(PreOrder(tree, Root), LAMBDA n :
        tree[n].nodeName = "#comment" /\ StartsWith(tree[n].value, PLACEHOLDER_HEAD))

\* the records stored for the file at path
RecordsOf(path) == {d \in 1..Len(htmlData) : htmlData[d].absolutePath = path}

\* C1: after an options call whose matched inputs can all be read, for every
\* script of a matched file whose src is a non-empty local path: the call raised
\* no error, the path resolved against the file's directory is in the entry set,
\* the file's record is stored, and the script node is in the record's tree with
\* the name, attributes and children it was parsed with.
C1_LocalScriptKept ==
    (last.hook = "options" /\ AllReadable) =>
        \A e \in 1..Len(last.Html) :
            LET path == Resolve1(last.Html[e].value)
                tree == SourceTree(path)
                scripts == SelectSeq(PreOrder(tree, Root),
                                     LAMBDA n : IsLocalSrcScript(tree[n]))
            IN \A k \in 1..Len(scripts) :
                  /\ last.ret = "new"
                  /\ Includes(last.rollupHtml,
                              Resolve2(Dirname(path), AttrValue(tree[scripts[k]], "src").v))
                  /\ \E d \in RecordsOf(path) :
                        /\ Includes(PreOrder(htmlData[d].ast, Root), scripts[k])
                        /\ htmlData[d].ast[scripts[k]].nodeName = "script"
                        /\ htmlData[d].ast[scripts[k]].attrs = tree[scripts[k]].attrs
                        /\ htmlData[d].ast[scripts[k]].childNodes
                              = tree[scripts[k]].childNodes

\* C2: any two inline module records held by the document records have
\* different virtual identifiers, whether they belong to one document or to two.
C2_VirtualIdsUnique ==
    \A i, j \in 1..Len(AllInlineModules(htmlData)) :
        i # j => AllInlineModules(htmlData)[i].virtualId
                    # AllInlineModules(htmlData)[j].virtualId

\* C3: load of the virtual identifier of an inline module record held by a
\* document record returns that record's script text; load of the no-op id
\* returns the no-op payload; load of an id with the inline prefix that no record
\* holds raises an error.
C3_LoadReturnsRecordText ==
    last.hook = "load" =>
        /\ \A i \in 1..Len(AllInlineModules(htmlData)) :
              AllInlineModules(htmlData)[i].virtualId = last.id =>
                  /\ last.ret = "code"
                  /\ last.code = AllInlineModules(htmlData)[i].code
        /\ last.id = NOOP_IMPORT_ID => (last.ret = "code" /\ last.code = NOOP_PAYLOAD)
        /\ ( /\ StartsWith(last.id, INLINE_MODULE_PREFIX)
             /\ \A i \in 1..Len(AllInlineModules(htmlData)) :
                   AllInlineModules(htmlData)[i].virtualId # last.id )
           => last.ret = "throw"

\* the k-th inline module script s of tree is, in the record d, the k-th record
\* and the k-th placeholder comment, which stands where s stood
ExtractedAt(d, tree, scripts, k) ==
    LET m == htmlData[d].inlineModules[k]
        s == scripts[k]
        c == Placeholders(htmlData[d].ast)[k]
        before == tree[tree[s].parentNode].childNodes
        after == htmlData[d].ast[tree[s].parentNode].childNodes
    IN /\ SubSeq(m.virtualId, Len(m.virtualId) - 1, Len(m.virtualId))
             = <<"?index=", ToString(k - 1)>>
       /\ m.code = getTextContent(tree, s)
       /\ htmlData[d].ast[c].value = <<PLACEHOLDER_HEAD>> \o m.virtualId \o <<"__">>
       /\ htmlData[d].ast[c].parentNode = tree[s].parentNode
       /\ Includes(after, c) /\ ~Includes(after, s)
       /\ \A t \in 1..Len(before) :
             Includes(after, before[t]) =>
                 (t < FindIndex(before, s)
                     <=> FindIndex(after, before[t]) < FindIndex(after, c))

\* C4: after an options call whose matched inputs can all be read, the record
\* of a matched file with N inline module scripts holding text has exactly N
\* inline module records, the k-th carrying index k-1 and the text of the k-th
\* script in document order, and its tree has exactly N placeholder comments,
\* the k-th carrying the k-th record's token in the place of the k-th script,
\* whether or not comments are removed.
C4_InlineModulesExtracted ==
    (last.hook = "options" /\ AllReadable) =>
        \A e \in 1..Len(last.Html) :
            LET path == Resolve1(last.Html[e].value)
                tree == SourceTree(path)
                scripts == InlineModuleScripts(tree)
            IN \E d \in RecordsOf(path) :
                  /\ Len(htmlData[d].inlineModules) = Len(scripts)
                  /\ Len(Placeholders(htmlData[d].ast)) = Len(scripts)
                  /\ \A k \in 1..Len(scripts) : ExtractedAt(d, tree, scripts, k)

\* the virtual id a placeholder comment carries: its value between the head
\* and the closing "__"
CarriedId(value) == SubSeq(value, 2, Len(value) - 1)

\* the chunks of a bundle that a module id matches
MatchedChunks(bundle, id) ==
    SelectSeq(bundle, LAMBDA c :
        c.type = "chunk" /\ (c.facadeModuleId = Defined(id) \/ id \in c.modules))

\* the path of chunkFile relative to the directory fileName is emitted in
ExpectedSrc(outputDir, fileName, chunkFile) ==
    LET rel == Relative(Dirname(Resolve2(Resolve1(outputDir), fileName)),
                        Resolve2(Resolve1(outputDir), chunkFile))
    IN IF Len(rel) > 0 /\ rel[1] \in {".", "..", "/"} THEN rel ELSE <<".", "/">> \o rel

\* the node that stands for node t of document i after the last rewrite
Image(i, t) ==
    IF \E r \in 1..Len(last.replaced[i]) : last.replaced[i][r].old = t
    THEN last.replaced[i][CHOOSE r \in 1..Len(last.replaced[i]) :
                             last.replaced[i][r].old = t].new
    ELSE t

\* placeholder c of document i was replaced in place by a module script for chunkFile
ReplacedInPlace(i, c, chunkFile) ==
    LET old == last.before[i].ast
        new == htmlData[i].ast
        s == Image(i, c)
        kidsOld == old[old[c].parentNode].childNodes
        kidsNew == new[old[c].parentNode].childNodes
    IN /\ s # c
       /\ new[s].nodeName = "script"
       /\ new[s].childNodes = <<>>
       /\ new[s].attrs
             = <<Attr("type", <<"module">>),
                 Attr("src", ExpectedSrc(last.outputDir.v,
                                         OutputFileName(Config(pluginOptions), isWithDest,
                                                        htmlData[i]),
                                         chunkFile))>>
       /\ new[s].parentNode = old[c].parentNode
       /\ FindIndex(kidsNew, s)
             = 1 + Cardinality({t \in 1..(FindIndex(kidsOld, c) - 1) :
                                   Includes(kidsNew, Image(i, kidsOld[t]))})

\* C5: after generateBundle, in every document the run rewrote, every
\* placeholder comment whose virtual id matches a chunk of the bundle has been
\* replaced, at its place in its parent's child list, by a script element with
\* no children and the attributes type="module" and src = the chunk's file path
\* relative to the directory the document is emitted in, "./"-prefixed when it
\* starts with neither "." nor "/".
C5_PlaceholdersReplaced ==
    last.hook = "generateBundle" =>
        \A i \in 1..Len(last.replaced) :
            \A k \in 1..Len(Placeholders(last.before[i].ast)) :
                LET c == Placeholders(last.before[i].ast)[k]
                    chunks == MatchedChunks(last.bundle,
                                            CarriedId(last.before[i].ast[c].value))
                IN Len(chunks) > 0 => ReplacedInPlace(i, c, chunks[1].fileName)

\* the no-op entry alone
NoopInput == <<[key |-> NOOP_KEY, value |-> NOOP_IMPORT_ID]>>

\* C6: when options matched an HTML input and raised no error, it returns a
\* mapping that is not empty; when the documents gave no entry and the input
\* held no other entry, the mapping is the no-op entry alone; resolveId claims
\* the no-op id and load answers it with the no-op payload.
C6_InputNeverEmpty ==
    /\ (last.hook = "options" /\ Len(last.Html) > 0 /\ last.ret # "throw") =>
          /\ last.ret = "new"
          /\ Len(last.newInput) > 0
          /\ (Len(last.rollupHtml) = 0 /\ Len(last.nonHtml) = 0) =>
                last.newInput = NoopInput
    /\ (last.hook = "resolveId" /\ last.id = NOOP_IMPORT_ID) =>
          last.ret = Defined(NOOP_IMPORT_ID)
    /\ (last.hook = "load" /\ last.id = NOOP_IMPORT_ID) =>
          (last.ret = "code" /\ last.code = NOOP_PAYLOAD)

\* C6 witness: options matched a document with no entry point, and returned the
\* no-op entry alone
C6_NoopInjected ==
    /\ last.hook = "options" /\ Len(last.Html) > 0 /\ last.ret = "new"
    /\ Len(last.rollupHtml) = 0 /\ Len(last.nonHtml) = 0
    /\ last.newInput = NoopInput

\* the keys of a mapping under which value is stored
KeysOf(obj, value) == {i \in 1..Len(obj) : obj[i].value = value}

\* C7: the mapping options returns has one key for each discovered entry and
\* keeps every other entry: its keys are pairwise different, every entry of the
\* entry set is stored in it, every non-HTML entry is still stored under its
\* key, and it has as many entries as the non-HTML entries and the entry set
\* together.
C7_EntryKeysUnique ==
    (last.hook = "options" /\ last.ret = "new" /\ last.newInput # NoopInput) =>
        /\ \A i, j \in 1..Len(last.newInput) :
              i # j => last.newInput[i].key # last.newInput[j].key
        /\ \A e \in 1..Len(last.rollupHtml) :
              KeysOf(last.newInput, last.rollupHtml[e]) # {}
        /\ \A n \in 1..Len(last.nonHtml) :
              /\ HasOwn(last.newInput, last.nonHtml[n].key)
              /\ ObjGet(last.newInput, last.nonHtml[n].key) = last.nonHtml[n].value
        /\ Len(last.newInput) = Len(last.nonHtml) + Len(last.rollupHtml)

\* C8: when options matched an HTML input, every non-HTML entry of the input
\* is in the returned mapping under its key with its value; when it matched
\* none, it returns the options it was given if the input holds an entry and
\* null otherwise, and holds no document record.
C8_NonHtmlPassThrough ==
    last.hook = "options" =>
        /\ last.ret = "new" =>
              \A n \in 1..Len(last.nonHtml) :
                 /\ HasOwn(last.newInput, last.nonHtml[n].key)
                 /\ ObjGet(last.newInput, last.nonHtml[n].key) = last.nonHtml[n].value
        /\ Len(last.Html) = 0 =>
              /\ last.ret = (IF Len(last.nonHtml) > 0 THEN "rollupOptions" ELSE "null")
              /\ htmlData = <<>>

\* the output file name document d computes
NameOf(d) == OutputFileName(Config(pluginOptions), isWithDest, htmlData[d])

\* the documents whose output file name an earlier document also computes
Colliding == {j \in 1..Len(htmlData) : \E i \in 1..(j - 1) : NameOf(i) = NameOf(j)}

\* C9: in one generateBundle run with an output directory, the emitted file
\* names are pairwise different; when no two documents compute the same name
\* all are emitted; otherwise, j being the first document whose name an earlier
\* one computes, exactly the documents before j are emitted, j is not, and the
\* run ends with the collision error naming j's file name.
C9_CollisionIsFatal ==
    (last.hook = "generateBundle" /\ Truthy(last.outputDir)) =>
        /\ \A a, b \in 1..Len(last.emitted) :
              a # b => last.emitted[a].fileName # last.emitted[b].fileName
        /\ \A a \in 1..Len(last.emitted) : last.emitted[a].doc = a
        /\ IF Colliding = {}
           THEN last.ret = "ok" /\ Len(last.emitted) = Len(htmlData)
           ELSE LET j == CHOOSE x \in Colliding : \A y \in Colliding : x <= y
                IN /\ last.ret = "throw"
                   /\ last.collision = NameOf(j)
                   /\ Len(last.emitted) = j - 1

\* C9 witness: two documents compute index.html; the first is emitted, the run
\* ends with the collision error for index.html
C9_CollisionSeen ==
    /\ last.hook = "generateBundle" /\ last.ret = "throw"
    /\ last.collision = <<"index.html">>
    /\ Len(htmlData) = 2 /\ Len(last.emitted) = 1
    /\ last.emitted[1].fileName = <<"index.html">>

\* the file name the precedence gives a document record
ExpectedName(data) ==
    IF isWithDest
    THEN (IF Len(data.dest) > 0 /\ data.dest[1] = "/" THEN Tail(data.dest) ELSE data.dest)
    ELSE IF pluginOptions.preserveStructure = "true"
    THEN (IF IsAbsolute(data.src) THEN Relative(Cwd, data.absolutePath) ELSE data.src)
    ELSE Basename(data.src)

InputRelativePath(data) ==
    IF IsAbsolute(data.src) THEN Relative(Cwd, data.absolutePath) ELSE data.src

\* C11: when the plugin was created without a preserveStructure option and the
\* input was a string or an array, every document generateBundle emits is
\* emitted at its input-relative path, not at its basename.
C11_DefaultKeepsStructure ==
    (/\ last.hook = "generateBundle"
     /\ pluginOptions.preserveStructure = "undefined"
     /\ ~isWithDest) =>
        \A e \in 1..Len(last.emitted) :
            last.emitted[e].fileName = InputRelativePath(htmlData[last.emitted[e].doc])

\* the style elements of a tree that hold text, in document order
StyleNodes(tree) ==
    SelectSeq(PreOrder(tree, Root), LAMBDA n :
        tree[n].nodeName = "style" /\ getTextContent(tree, n) # <<>>)

\* the inline non-module scripts of a tree that reach the minifier
MinifiedScripts(tree) ==
    SelectSeq(InlineScripts(tree), LAMBDA n : Trim(getTextContent(tree, n)) # <<>>)

\* how often a report occurs in a log
Count(log, report) == Cardinality({i \in 1..Len(log) : log[i] = report})

\* the distinct files the last options call matched
MatchedPaths == {Resolve1(last.Html[e].value) : e \in 1..Len(last.Html)}

RECURSIVE SumOver(_, _)
\* the sum of the lengths F gives the members of a set
SumOver(S, total) ==
    IF S = {} THEN total
    ELSE LET x == CHOOSE y \in S : TRUE IN SumOver(S \ {x}, total + x[2])

\* the records an options call on the same input leaves when no transform fails
QuietRecords == OptionsCall(Config(pluginOptions), last.input, FALSE, 0).htmlData

\* record d is the record of the failure-free call but for the text of its styles
SameButStyles(d, quiet) ==
    /\ htmlData[d].inlineModules = quiet.inlineModules
    /\ Len(htmlData[d].ast) = Len(quiet.ast)
    /\ \A n \in 1..Len(quiet.ast) :
          \/ htmlData[d].ast[n] = quiet.ast[n]
          \/ /\ quiet.ast[n].nodeName = "#text"
             /\ quiet.ast[quiet.ast[n].parentNode].nodeName = "style"
             /\ htmlData[d].ast[n] = [quiet.ast[n] EXCEPT !.value = htmlData[d].ast[n].value]

\* the style transform threw in the last options call: nothing is lost
StyleFailureContained ==
    /\ last.ret = "new"
    /\ Len(htmlData) = Len(QuietRecords)
    /\ \A path \in MatchedPaths :
          \E d \in RecordsOf(path) :
             /\ \A k \in 1..Len(StyleNodes(SourceTree(path))) :
                   getTextContent(htmlData[d].ast, StyleNodes(SourceTree(path))[k])
                      = getTextContent(SourceTree(path), StyleNodes(SourceTree(path))[k])
             /\ QuietRecords[d].absolutePath = path
             /\ SameButStyles(d, QuietRecords[d])
    /\ Count(last.log, "lightningcss-error")
          = SumOver({<<path, Len(StyleNodes(SourceTree(path)))>> : path \in MatchedPaths}, 0)

\* the minifier failed in the last generateBundle run: nothing is lost
MinifyFailureContained ==
    /\ \A i \in 1..Len(last.replaced) :
          /\ \A k \in 1..Len(MinifiedScripts(last.before[i].ast)) :
                getTextContent(htmlData[i].ast, MinifiedScripts(last.before[i].ast)[k])
                   = getTextContent(last.before[i].ast,
                                    MinifiedScripts(last.before[i].ast)[k])
          /\ \A k \in 1..Len(NodesToReplace(last.before[i].ast)) :
                ~Includes(PreOrder(htmlData[i].ast, Root),
                          NodesToReplace(last.before[i].ast)[k])
    /\ Count(last.log, "terser-failed") + Count(last.log, "terser-undefined")
          = SumOver({<<i, Len(MinifiedScripts(last.before[i].ast))>> :
                        i \in 1..Len(last.replaced)}, 0)
    /\ Colliding = {} =>
          /\ last.ret = "ok"
          /\ Len(last.emitted) = Len(htmlData)
          /\ \A e \in 1..Len(last.emitted) :
                last.emitted[e].source = Serialize(htmlData[e].ast, Root)

\* the options call met a style that the transform was given
StyleTransformFailed ==
    /\ last.hook = "options" /\ AllReadable
    /\ Count(last.log, "lightningcss-error") > 0

\* the generateBundle run met a script for which the minifier failed
MinifierFailed ==
    /\ last.hook = "generateBundle" /\ Truthy(last.outputDir)
    /\ Count(last.log, "terser-failed") + Count(last.log, "terser-undefined") > 0

\* C12: when the style transform throws during an options call whose matched
\* inputs can all be read, the call raises no error, every matched document has
\* its record, every style keeps its text, everything else of the record is what
\* a call without the failure leaves, and each failure is reported; when the
\* minifier throws or returns no code during a generateBundle run, every script
\* it was given keeps its text, each failure is reported, every reference node
\* is still rewritten, and every document is emitted unless file names collide.
C12_TransformFailureContained ==
    /\ StyleTransformFailed => StyleFailureContained
    /\ MinifierFailed => MinifyFailureContained

\* s with every whitespace token that follows a whitespace token dropped and
\* the others turned into one space
Squeezed(s) ==
    LET keep == {i \in 1..Len(s) : ~IsSpace(s[i]) \/ i = 1 \/ ~IsSpace(s[i - 1])}
        at(k) == CHOOSE i \in keep : Cardinality({j \in keep : j < i}) = k - 1
    IN [k \in 1..Cardinality(keep) |-> IF IsSpace(s[at(k)]) THEN " " ELSE s[at(k)]]

\* s without one leading space, without one trailing space
DropLead(s) == IF Len(s) > 0 /\ s[1] = " " THEN Tail(s) ELSE s
DropTrail(s) == IF Len(s) > 0 /\ s[Len(s)] = " " THEN SubSeq(s, 1, Len(s) - 1) ELSE s

\* what compression makes of text node n of tree, by its place among the
\* children of its parent as parsed
ExpectedText(tree, n) ==
    LET kids == tree[tree[n].parentNode].childNodes
        sq == Squeezed(tree[n].value)
    IN IF Len(kids) = 1 THEN DropTrail(DropLead(sq))
       ELSE IF kids[1] = n THEN DropLead(sq)
       ELSE IF kids[Len(kids)] = n THEN DropTrail(sq)
       ELSE sq

\* the text nodes of a tree that have a parent
TextNodes(tree) ==
    {n \in 1..Len(tree) : tree[n].nodeName = "#text" /\ tree[n].parentNode # Null}

\* text node n of the file at path, in the record d, is compressed as its place
\* asks, or untouched under pre, textarea, script and style
CompressedAt(d, tree, n) ==
    LET p == tree[n].parentNode
        now == htmlData[d].ast
    IN IF tree[p].nodeName \in {"pre", "textarea", "script"}
       THEN now[n].value = tree[n].value
       ELSE IF tree[p].nodeName = "style"
       THEN now[n].value \in {tree[n].value, LightningOutput(tree[n].value)}
       ELSE IF ExpectedText(tree, n) = <<>>
       THEN ~Includes(now[p].childNodes, n)
       ELSE /\ now[n].value = ExpectedText(tree, n)
            /\ Includes(now[p].childNodes, n)
            /\ now[n].parentNode = p

\* C13: after an options call with compressWhitespace on that raised no error,
\* in every record every text node whose parent is not pre, textarea, script or
\* style has its whitespace runs collapsed to one space and is trimmed on both
\* sides as an only child, at the start as the first of several children, at the
\* end as the last of several, and not otherwise (its place taken among the
\* parent's children as parsed); it is gone from its parent when nothing is
\* left; text under pre, textarea, script and style is not compressed.
C13_WhitespaceCompressed ==
    (/\ last.hook = "options" /\ last.ret = "new"
     /\ pluginOptions.compressWhitespace = "true") =>
        \A d \in 1..Len(htmlData) :
            \A n \in TextNodes(SourceTree(htmlData[d].absolutePath)) :
                CompressedAt(d, SourceTree(htmlData[d].absolutePath), n)

\* C13 witness: ws.html compressed: "  hello   world  " is "hello world" as the
\* only child of p and "hello world " as the first child of div, the middle
\* text keeps both spaces, the last loses the trailing one, pre is untouched
\* and the whitespace-only paragraph is empty
C13_HelloWorld ==
    /\ last.hook = "options" /\ last.ret = "new"
    /\ pluginOptions.compressWhitespace = "true"
    /\ Len(htmlData) = 1 /\ htmlData[1].src = <<"ws.html">>
    /\ \E p, q, v, e \in 1..Len(htmlData[1].ast) :
          LET a == htmlData[1].ast IN
          /\ a[p].nodeName = "p" /\ Len(a[p].childNodes) = 1
          /\ a[a[p].childNodes[1]].value = <<"hello", " ", "world">>
          /\ a[q].nodeName = "div" /\ Len(a[q].childNodes) = 5
          /\ a[a[q].childNodes[1]].value = <<"hello", " ", "world", " ">>
          /\ a[a[q].childNodes[3]].value = <<" ", "a", " ">>
          /\ a[a[q].childNodes[5]].value = <<" ", "z">>
          /\ a[v].nodeName = "pre"
          /\ a[a[v].childNodes[1]].value = <<" ", " ", "x", " ", " ">>
          /\ a[e].nodeName = "p" /\ a[e].childNodes = <<>>

\* a generateBundle run that ended well is followed by another in the same
\* build with the same bundle and the same output directory
SecondOutput ==
    /\ last.hook = "generateBundle" /\ last.ret = "ok"
    /\ last'.hook = "generateBundle"
    /\ last'.bundle = last.bundle
    /\ last'.outputDir = last.outputDir

\* the module scripts of a tree whose src is not empty
ModuleSrcScripts(tree) ==
    SelectSeq(PreOrder(tree, Root), LAMBDA n :
        /\ tree[n].nodeName = "script"
        /\ AttrValue(tree[n], "type") = Defined(<<"module">>)
        /\ Truthy(AttrValue(tree[n], "src")))

\* C14: a second generateBundle run of a build, given the bundle and the output
\* directory of the first, leaves every tree as the first left it and emits
\* for every document the file the first emitted, with the same markup.
C14_RewriteOncePerRecord ==
    [][SecondOutput =>
          /\ \A i \in 1..Len(htmlData) :
                /\ Serialize(htmlData'[i].ast, Root) = Serialize(htmlData[i].ast, Root)
                /\ ModuleSrcScripts(htmlData'[i].ast) = ModuleSrcScripts(htmlData[i].ast)
          /\ last'.ret = "ok"
          /\ last'.emitted = last.emitted]_vars

\* the comment nodes of a tree, in document order
Comments(tree) ==
    SelectSeq(PreOrder(tree, Root), LAMBDA n : tree[n].nodeName = "#comment")

\* comment n of the source of document i is in the tree the last run left, as
\* it was parsed
CommentKept(i, tree, n) ==
    /\ Includes(PreOrder(htmlData[i].ast, Root), n)
    /\ htmlData[i].ast[n].nodeName = "#comment"
    /\ htmlData[i].ast[n].value = tree[n].value
    /\ \A r \in 1..Len(last.replaced[i]) : last.replaced[i][r].old # n

WellFormedId(id) ==
    /\ Len(id) >= 4
    /\ id[1] = INLINE_MODULE_PREFIX
    /\ id[Len(id) - 1] = "?index=" /\ id[Len(id)] \in DigitTokens
    /\ \A x \in 2..(Len(id) - 2) : id[x] \notin QueryTokens

\* the module id reference node n of tree stands for, when one can be told
ReferenceId(tree, path, n) ==
    IF tree[n].nodeName = "#comment"
    THEN (IF tree[n].value[Len(tree[n].value)] = "__" /\ WellFormedId(CarriedId(tree[n].value))
          THEN Defined(CarriedId(tree[n].value)) ELSE Undefined)
    ELSE Defined(Resolve2(Dirname(path), AttrValue(tree[n], "src").v))

\* the reference nodes of document i before the last run: the placeholder
\* comments and the local module scripts
References(i) ==
    SelectSeq(PreOrder(last.before[i].ast, Root), LAMBDA n :
        \/ /\ last.before[i].ast[n].nodeName = "#comment"
           /\ StartsWith(last.before[i].ast[n].value, PLACEHOLDER_HEAD)
        \/ /\ last.before[i].ast[n].nodeName = "script"
           /\ AttrValue(last.before[i].ast[n], "type") = Defined(<<"module">>)
           /\ Truthy(AttrValue(last.before[i].ast[n], "src"))
           /\ ~Includes(AttrValue(last.before[i].ast[n], "src").v, "://"))

\* the references of document i that have an id no chunk matches, and those
\* that have no id
Unmatched(i) ==
    SelectSeq(References(i), LAMBDA n :
        LET id == ReferenceId(last.before[i].ast, htmlData[i].absolutePath, n)
        IN id.defined /\ Len(MatchedChunks(last.bundle, id.v)) = 0)
Unparsed(i) ==
    SelectSeq(References(i), LAMBDA n :
        ~ReferenceId(last.before[i].ast, htmlData[i].absolutePath, n).defined)

\* node n of document i was taken out of its parent's children by the last run,
\* nothing put in its place
TakenOut(i, n) ==
    LET p == last.before[i].ast[n].parentNode
    IN /\ ~Includes(htmlData[i].ast[p].childNodes, n)
       /\ ~Includes(PreOrder(htmlData[i].ast, Root), n)
       /\ \A r \in 1..Len(last.replaced[i]) : last.replaced[i][r].old # n

\* C16: in a generateBundle run with an output directory, every reference node
\* with an id that no chunk matches and every placeholder comment without a
\* readable id is taken out of its parent's children, each with its warning;
\* the run goes on: every document it rewrote is emitted unless its file name
\* was already emitted, and neither the tree nor the markup of a rewritten
\* document holds a placeholder comment.
C16_UnmatchedReferencesRemoved ==
    (last.hook = "generateBundle" /\ Truthy(last.outputDir)) =>
        /\ \A i \in 1..Len(last.replaced) :
              /\ \A k \in 1..Len(Unmatched(i)) : TakenOut(i, Unmatched(i)[k])
              /\ \A k \in 1..Len(Unparsed(i)) : TakenOut(i, Unparsed(i)[k])
              /\ Placeholders(htmlData[i].ast) = <<>>
              /\ i \notin Colliding => \E e \in 1..Len(last.emitted) : last.emitted[e].doc = i
        /\ Count(last.log, "removing-node")
              = SumOver({<<i, Len(Unmatched(i))>> : i \in 1..Len(last.replaced)}, 0)
        /\ Count(last.log, "chunk-not-found") = Count(last.log, "removing-node")
        /\ Count(last.log, "removing-unparsed")
              = SumOver({<<i, Len(Unparsed(i))>> : i \in 1..Len(last.replaced)}, 0)
        /\ Count(last.log, "placeholder-unparsed") = Count(last.log, "removing-unparsed")
        /\ \A e \in 1..Len(last.emitted) :
              /\ last.emitted[e].source = Serialize(htmlData[last.emitted[e].doc].ast, Root)
              /\ ~Includes(last.emitted[e].source, PLACEHOLDER_HEAD)

\* C16 witness: a run over one document with placeholder comments, a chunk for
\* some and none for others: the unmatched are removed with a warning, the
\* matched replaced, and the document is emitted
C16_OptimizedAwaySeen ==
    /\ last.hook = "generateBundle" /\ last.ret = "ok"
    /\ Len(htmlData) = 1 /\ Len(last.emitted) = 1
    /\ Len(Placeholders(last.before[1].ast)) > 1
    /\ Len(Unmatched(1)) > 0 /\ Len(last.replaced[1]) > 0
    /\ Count(last.log, "removing-node") = Len(Unmatched(1))

\* the nodes of a tree that the document node reaches
Reach(ast) == {PreOrder(ast, Root)[k] : k \in 1..Len(PreOrder(ast, Root))}

\* every child of holder names parent as its parentNode, and none is listed twice
ChildrenLinked(ast, holder, parent) ==
    ast[holder].hasChildNodes =>
        /\ \A k \in 1..Len(ast[holder].childNodes) :
              ast[ast[holder].childNodes[k]].parentNode = parent
        /\ \A j, k \in 1..Len(ast[holder].childNodes) :
              j # k => ast[holder].childNodes[j] # ast[holder].childNodes[k]

\* the parent links of a tree agree with its child lists, template content included
LinksConsistent(ast) ==
    \A n \in Reach(ast) :
        /\ ChildrenLinked(ast, n, n)
        /\ (ast[n].nodeName = "template" /\ ast[n].content # Null) =>
              ChildrenLinked(ast, ast[n].content, ast[n].content)

\* the tree of document i after the first k reference nodes of the last run
\* were rewritten
StepTree(i, k) ==
    RewriteNodes([config |-> Config(pluginOptions), withDest |-> isWithDest,
                  outputDir |-> last.outputDir.v, bundle |-> last.bundle,
                  data |-> last.before[i],
                  dir |-> Dirname(last.before[i].absolutePath)],
                 [ast |-> last.before[i].ast, log |-> <<>>, replaced |-> <<>>],
                 SubSeq(NodesToReplace(last.before[i].ast), 1, k)).ast

\* C17: in every stored tree, after options and after generateBundle, every
\* child names the node that lists it as its parent and every child of a
\* template's content names the content fragment; the scripts extraction
\* replaced and the nodes the rewrite replaced are in no child list, the nodes
\* put in their place are; and the same holds after each single rewrite step.
C17_ParentLinksConsistent ==
    /\ \A d \in 1..Len(htmlData) : LinksConsistent(htmlData[d].ast)
    /\ last.hook = "options" =>
          \A d \in 1..Len(htmlData) :
             /\ \A k \in 1..Len(InlineModuleScripts(SourceTree(htmlData[d].absolutePath))) :
                   InlineModuleScripts(SourceTree(htmlData[d].absolutePath))[k]
                      \notin Reach(htmlData[d].ast)
             /\ \A k \in 1..Len(Placeholders(htmlData[d].ast)) :
                   htmlData[d].ast[Placeholders(htmlData[d].ast)[k]].parentNode # Null
    /\ (last.hook = "generateBundle" /\ Truthy(last.outputDir)) =>
          \A i \in 1..Len(last.replaced) :
             /\ \A r \in 1..Len(last.replaced[i]) :
                   /\ last.replaced[i][r].old \notin Reach(htmlData[i].ast)
                   /\ Includes(htmlData[i].ast[last.replaced[i][r].parent].childNodes,
                               last.replaced[i][r].new)
                   /\ htmlData[i].ast[last.replaced[i][r].new].parentNode
                         = last.replaced[i][r].parent
             /\ \A k \in 0..Len(NodesToReplace(last.before[i].ast)) :
                   LinksConsistent(StepTree(i, k))

\* C17 witness: a run rewrote a document in which one placeholder stood in a
\* template's content and was replaced there by a script, and another was removed
C17_TemplateContentRewritten ==
    /\ last.hook = "generateBundle" /\ last.ret = "ok"
    /\ \E i \in 1..Len(last.replaced) :
          /\ Len(Unmatched(i)) > 0
          /\ \E r \in 1..Len(last.replaced[i]) :
                /\ htmlData[i].ast[last.replaced[i][r].parent].nodeName
                      = "#document-fragment"
                /\ htmlData[i].ast[last.replaced[i][r].new].nodeName = "script"
                /\ last.before[i].ast[last.replaced[i][r].old].nodeName = "#comment"

\* C18: every options call leaves exactly the records of its own HTML inputs,
\* one per distinct resolved path (none when no input matched; those processed
\* before the error when it raises one), each with the key and the path of an
\* input of that call, and sets the keyed-input flag from its own input alone;
\* resolveId, load and generateBundle leave the set of records and the flag as
\* that call left them.
C18_StateResetPerBuild ==
    [][/\ last'.hook = "options" =>
             /\ isWithDest' = (last'.input.kind = "object")
             /\ \A d \in 1..Len(htmlData') :
                   \E e \in 1..Len(last'.Html) :
                      /\ htmlData'[d].absolutePath = Resolve1(last'.Html[e].value)
                      /\ htmlData'[d].src = last'.Html[e].value
                      /\ htmlData'[d].dest = last'.Html[e].key
             /\ \A c, d \in 1..Len(htmlData') :
                   c # d => htmlData'[c].absolutePath # htmlData'[d].absolutePath
             /\ last'.ret = "new" =>
                   \A e \in 1..Len(last'.Html) :
                      \E d \in 1..Len(htmlData') :
                         htmlData'[d].absolutePath = Resolve1(last'.Html[e].value)
             /\ Len(last'.Html) = 0 => htmlData' = <<>>
       /\ last'.hook \in {"resolveId", "load", "generateBundle"} =>
             /\ isWithDest' = isWithDest
             /\ Len(htmlData') = Len(htmlData)
             /\ \A d \in 1..Len(htmlData) :
                   /\ htmlData'[d].absolutePath = htmlData[d].absolutePath
                   /\ htmlData'[d].src = htmlData[d].src
                   /\ htmlData'[d].dest = htmlData[d].dest
                   /\ htmlData'[d].inlineModules = htmlData[d].inlineModules]_vars

\* C18 witness: an options call on the string input plain.html that followed a
\* build with a keyed input: the records of that build are gone, the flag is off
C18_RebuildSeen ==
    /\ last.hook = "options" /\ last.ret = "new"
    /\ last.input = StringInput(<<"plain.html">>)
    /\ last.previous.isWithDest /\ last.previous.paths # {}
    /\ ~isWithDest
    /\ Len(htmlData) = 1
    /\ htmlData[1].absolutePath = Resolve1(<<"plain.html">>)
    /\ htmlData[1].absolutePath \notin last.previous.paths

====
